---- MODULE Spec2Model ----
(***************************************************************************)
(* A model of the rspack resolver plugin of embroider:                     *)
(*   packages/rspack/src/rspack-resolver-plugin.ts  (factory-level tap,    *)
(*       with the virtual-module context tracker)        -> Spec           *)
(*     RspackModuleRequest.from on every kind of record  -> SpecFrom       *)
(*     virtualize under every configuration              -> SpecVirtualize *)
(*     the fallback resolver on every request and disk   -> SpecFallback   *)
(*   the compilation-level variant of the same plugin    -> SpecCompilation*)
(*                                                                         *)
(* JavaScript strings are sequences of one-character strings, so that      *)
(* includes/startsWith/match, path.dirname, path.join and the              *)
(* URLSearchParams encoding are computed character by character.           *)
(***************************************************************************)
EXTENDS Integers, Sequences, FiniteSets, TLC

(***************************************************************************)
(* JavaScript values that are not strings                                  *)
(***************************************************************************)
\* undefined / null: a one-element sequence whose element is not a character
Undefined == <<"undefined">>
\* any value whose typeof is not 'string' (an object, a number)
NotString == <<"object">>
IsString(v) == v # Undefined /\ v # NotString
\* JavaScript truthiness of a string-or-undefined value
Truthy(v) == v # Undefined /\ v # <<>>

Max(S) == CHOOSE m \in S : \A n \in S : n <= m
Min(S) == CHOOSE m \in S : \A n \in S : m <= n

(***************************************************************************)
(* String.prototype functions                                              *)
(***************************************************************************)
\* a search that looks for sub at the start of s only
IncludesAtStart(s, sub) ==
  Len(sub) <= Len(s) /\ SubSeq(s, 1, Len(sub)) = sub

\* s.includes(sub)
Includes(s, sub) ==
  \/ sub = <<>>
  \/ \E i \in 1..(Len(s) - Len(sub) + 1) :
       s[i] = sub[1] /\ SubSeq(s, i, i + Len(sub) - 1) = sub

\* s.startsWith(pre)
StartsWith(s, pre) ==
  Len(pre) <= Len(s) /\ SubSeq(s, 1, Len(pre)) = pre

\* s.indexOf(sub) + 1 (0 when sub does not occur)
IndexOf(s, sub) ==
  LET hits == {i \in 1..(Len(s) - Len(sub) + 1) :
                s[i] = sub[1] /\ SubSeq(s, i, i + Len(sub) - 1) = sub}
  IN IF sub = <<>> THEN 1 ELSE IF hits = {} THEN 0 ELSE Min(hits)

\* the characters of s from position i (1-based) to the end
Drop(s, i) == SubSeq(s, i, Len(s))

\* the longest prefix of s holding no character of the set stop
RECURSIVE TakeUntil(_, _)
TakeUntil(s, stop) ==
  IF s = <<>> \/ Head(s) \in stop THEN <<>>
  ELSE <<Head(s)>> \o TakeUntil(Tail(s), stop)

\* s.split(sep) for a one-character separator: a sequence of strings
RECURSIVE Split(_, _)
Split(s, sep) ==
  LET first == TakeUntil(s, {sep})
  IN IF Len(first) = Len(s) THEN <<first>>
     ELSE <<first>> \o Split(Drop(s, Len(first) + 2), sep)

\* parts.join(sep)
RECURSIVE Join(_, _)
Join(parts, sep) ==
  IF parts = <<>> THEN <<>>
  ELSE IF Len(parts) = 1 THEN parts[1]
  ELSE parts[1] \o sep \o Join(Tail(parts), sep)

(***************************************************************************)
(* path (POSIX)                                                            *)
(***************************************************************************)
\* path.dirname(p)
dirname(path) ==
  IF Len(path) = 0 THEN <<".">>
  ELSE LET hasRoot == path[1] = "/"
           ends == {i \in 2..Len(path) :
                      path[i] = "/" /\ \E j \in (i + 1)..Len(path) : path[j] # "/"}
       IN IF ends = {} THEN (IF hasRoot THEN <<"/">> ELSE <<".">>)
          ELSE IF hasRoot /\ Max(ends) = 2 THEN <<"/", "/">>
          ELSE SubSeq(path, 1, Max(ends) - 1)

\* normalizeString of node's path module, on the list of segments still to
\* read (segs) and the list of segments kept so far (res)
RECURSIVE normalizeSegments(_, _, _)
normalizeSegments(segs, res, allowAboveRoot) ==
  IF segs = <<>> THEN res
  ELSE LET seg == Head(segs)
           rest == Tail(segs)
       IN IF seg = <<>> \/ seg = <<".">> THEN normalizeSegments(rest, res, allowAboveRoot)
          ELSE IF seg = <<".", ".">> THEN
                 IF res # <<>> /\ res[Len(res)] # <<".", ".">>
                   THEN normalizeSegments(rest, SubSeq(res, 1, Len(res) - 1), allowAboveRoot)
                 ELSE IF allowAboveRoot
                   THEN normalizeSegments(rest, Append(res, seg), allowAboveRoot)
                 ELSE normalizeSegments(rest, res, allowAboveRoot)
          ELSE normalizeSegments(rest, Append(res, seg), allowAboveRoot)

\* path.normalize(p)
normalize(path) ==
  IF Len(path) = 0 THEN <<".">>
  ELSE LET isAbsolute == path[1] = "/"
           trailingSeparator == path[Len(path)] = "/"
           body == Join(normalizeSegments(Split(path, "/"), <<>>, ~isAbsolute), <<"/">>)
       IN IF body = <<>>
            THEN (IF isAbsolute THEN <<"/">>
                  ELSE IF trailingSeparator THEN <<".", "/">> ELSE <<".">>)
          ELSE (IF isAbsolute THEN <<"/">> ELSE <<>>) \o body
               \o (IF trailingSeparator THEN <<"/">> ELSE <<>>)

\* path.join(...parts): the non-empty parts joined by '/', then normalized
pathJoin(parts) ==
  LET kept == SelectSeq(parts, LAMBDA p : p # <<>>)
  IN IF kept = <<>> THEN <<".">> ELSE normalize(Join(kept, <<"/">>))

(***************************************************************************)
(* URLSearchParams (application/x-www-form-urlencoded)                     *)
(***************************************************************************)
Letters == {"a", "b", "c", "d", "e", "f", "g", "h", "i", "j", "k", "l", "m",
            "n", "o", "p", "q", "r", "s", "t", "u", "v", "w", "x", "y", "z"}
Digits == {"0", "1", "2", "3", "4", "5", "6", "7", "8", "9"}
HexDigits == Digits \cup {"a", "b", "c", "d", "e", "f", "A", "B", "C", "D", "E", "F"}
\* the characters the serializer leaves as they are
UrlSafe == Letters \cup Digits \cup {"*", "-", ".", "_"}

\* the percent code of the other characters the model's strings are made of
PercentCodes ==
  { <<"!", <<"2", "1">> >>, <<"#", <<"2", "3">> >>, <<"%", <<"2", "5">> >>,
    <<"&", <<"2", "6">> >>, <<"+", <<"2", "B">> >>, <<"/", <<"2", "F">> >>,
    <<":", <<"3", "A">> >>, <<"=", <<"3", "D">> >>, <<"?", <<"3", "F">> >>,
    <<"@", <<"4", "0">> >>, <<"~", <<"7", "E">> >> }

upperHex(h) ==
  CASE h = "a" -> "A" [] h = "b" -> "B" [] h = "c" -> "C"
    [] h = "d" -> "D" [] h = "e" -> "E" [] h = "f" -> "F" [] OTHER -> h

\* a serializer that escapes nothing
encodeCharRaw(c) == <<c>>

\* the serializer: one character to its encoded form
encodeChar(c) ==
  IF c \in UrlSafe THEN <<c>>
  ELSE IF c = " " THEN <<"+">>
  ELSE LET code == CHOOSE p \in PercentCodes : p[1] = c IN <<"%">> \o code[2]

RECURSIVE urlencode(_)
urlencode(s) ==
  IF s = <<>> THEN <<>> ELSE encodeChar(Head(s)) \o urlencode(Tail(s))

\* the character a valid two-digit percent code stands for; a code outside the
\* table decodes to a character outside the model's alphabet
decodeCode(h1, h2) ==
  LET code == <<upperHex(h1), upperHex(h2)>>
      known == {p \in PercentCodes : p[2] = code}
  IN IF code = <<"2", "0">> THEN " "
     ELSE IF known # {} THEN (CHOOSE p \in known : TRUE)[1]
     ELSE "<other>"

\* percent-decode: an invalid '%' sequence is kept as it is
RECURSIVE percentDecode(_)
percentDecode(s) ==
  IF s = <<>> THEN <<>>
  ELSE IF Head(s) = "%" /\ Len(s) >= 3 /\ s[2] \in HexDigits /\ s[3] \in HexDigits
    THEN <<decodeCode(s[2], s[3])>> \o percentDecode(Drop(s, 4))
  ELSE <<Head(s)>> \o percentDecode(Tail(s))

plusToSpace(s) == [i \in 1..Len(s) |-> IF s[i] = "+" THEN " " ELSE s[i]]

urldecode(s) == percentDecode(plusToSpace(s))

\* new URLSearchParams(init): the list of <<name, value>> pairs of a query string
parseParams(init) ==
  LET query == IF StartsWith(init, <<"?">>) THEN Tail(init) ELSE init
      parts == SelectSeq(Split(query, "&"), LAMBDA p : p # <<>>)
      pair(p) == LET name == TakeUntil(p, {"="})
                 IN <<urldecode(name),
                      IF Len(name) = Len(p) THEN <<>> ELSE urldecode(Drop(p, Len(name) + 2))>>
  IN [i \in 1..Len(parts) |-> pair(parts[i])]

\* params.get(name): the first value of that name, or null
paramsGet(params, name) ==
  LET hits == {i \in 1..Len(params) : params[i][1] = name}
  IN IF hits = {} THEN Undefined ELSE params[Min(hits)][2]

\* params.set('f', f); params.set('a', a); params.toString()
serializeParams(f, a) ==
  <<"f", "=">> \o urlencode(f) \o <<"&", "a", "=">> \o urlencode(a)

(***************************************************************************)
(* Module constants                                                        *)
(***************************************************************************)
\* '@embroider/rspack/src/virtual-loader'
virtualLoaderName ==
  <<"@", "e", "m", "b", "r", "o", "i", "d", "e", "r", "/", "r", "s", "p", "a", "c", "k",
    "/", "s", "r", "c", "/", "v", "i", "r", "t", "u", "a", "l", "-", "l", "o", "a", "d",
    "e", "r">>

\* resolve(__dirname, './virtual-loader.js'), the package being installed
\* under /n/@embroider/rspack
virtualLoaderPath ==
  <<"/", "n", "/", "@", "e", "m", "b", "r", "o", "i", "d", "e", "r", "/", "r", "s", "p",
    "a", "c", "k", "/", "s", "r", "c", "/", "v", "i", "r", "t", "u", "a", "l", "-", "l",
    "o", "a", "d", "e", "r", ".", "j", "s">>

\* a marker every relative specifier contains
AnyMarker == <<".">>

\* '-embroider-implicit-'
ImplicitMarker ==
  <<"-", "e", "m", "b", "r", "o", "i", "d", "e", "r", "-", "i", "m", "p", "l", "i", "c",
    "i", "t", "-">>

\* '-embroider-implicit-modules.js'
ImplicitModulesFile ==
  <<"-", "e", "m", "b", "r", "o", "i", "d", "e", "r", "-", "i", "m", "p", "l", "i", "c",
    "i", "t", "-", "m", "o", "d", "u", "l", "e", "s", ".", "j", "s">>

\* 'rewritten-app'
RewrittenApp ==
  <<"r", "e", "w", "r", "i", "t", "t", "e", "n", "-", "a", "p", "p">>

\* 'node_modules'
NodeModules ==
  <<"n", "o", "d", "e", "_", "m", "o", "d", "u", "l", "e", "s">>

\* 'PackagePathNotExported'
PackagePathNotExported ==
  <<"P", "a", "c", "k", "a", "g", "e", "P", "a", "t", "h", "N", "o", "t", "E", "x", "p",
    "o", "r", "t", "e", "d">>

(***************************************************************************)
(* The host's resolution record (`state`) and the context tracker          *)
(***************************************************************************)
\* A record is [request, context, hasInfo, issuer, meta, dependencies]:
\* hasInfo says whether state.contextInfo is an object; issuer is
\* state.contextInfo.issuer (Undefined when absent), meta is
\* state.contextInfo._embroiderMeta (Undefined, or an object named by a
\* one-element sequence); dependencies
\* lists dep._parentModule.userRequest of each of state.dependencies.

\* state.contextInfo?.issuer
issuerOf(st) == IF st.hasInfo THEN st.issuer ELSE Undefined

\* if (!state.contextInfo) state.contextInfo = { issuer: '' };
\* state.contextInfo.issuer = f
setIssuer(st, f) ==
  [st EXCEPT !.hasInfo = TRUE, !.issuer = f,
             !.meta = IF st.hasInfo THEN st.meta ELSE Undefined]

\* a set that forgets the entries of the other keys
mapSetOnly(m, k, v) == << <<k, v>> >>

\* Map.prototype.set on a Map kept as its list of <<key, value>> entries in
\* insertion order: an existing key keeps its place and takes the new value
mapSet(m, k, v) ==
  IF \E i \in 1..Len(m) : m[i][1] = k
    THEN [i \in 1..Len(m) |-> IF m[i][1] = k THEN <<k, v>> ELSE m[i]]
  ELSE Append(m, <<k, v>>)

\* a lookup that ignores the key and answers with the oldest entry
mapGetFirst(m, k) == IF m = <<>> THEN Undefined ELSE m[1][2]

\* Map.prototype.get
mapGet(m, k) ==
  LET hits == {i \in 1..Len(m) : m[i][1] = k}
  IN IF hits = {} THEN Undefined ELSE m[CHOOSE i \in hits : TRUE][2]

\* state.request.match(/\?([^!]+)/): group 1, or Undefined without a match
matchQuery(s) ==
  LET at == {p \in 1..(Len(s) - 1) : s[p] = "?" /\ s[p + 1] # "!"}
  IN IF at = {} THEN Undefined ELSE TakeUntil(Drop(s, Min(at) + 1), {"!"})

\* escapeRegExp(virtualLoaderName) + '\\?', a literal text, and its length
VirtualLoaderQuery ==
  [text |-> virtualLoaderName \o <<"?">>, n |-> Len(virtualLoaderName) + 1]

\* requestToResolve.match(new RegExp(escapeRegExp(virtualLoaderName) + '\\?([^!]+)')):
\* group 1, or Undefined without a match
matchVirtualLoaderQuery(s) ==
  LET at == {p \in 1..(Len(s) - VirtualLoaderQuery.n) :
               /\ s[p] = "@"
               /\ SubSeq(s, p, p + VirtualLoaderQuery.n - 1) = VirtualLoaderQuery.text
               /\ s[p + VirtualLoaderQuery.n] # "!"}
  IN IF at = {} THEN Undefined
     ELSE TakeUntil(Drop(s, Min(at) + VirtualLoaderQuery.n), {"!"})

\* the bookkeeping both sites share: read 'f' from the matched query and, when
\* it is non-empty, record dirname(f) -> f
trackVirtualModule(contexts, query) ==
  LET filename == IF query = Undefined THEN Undefined
                  ELSE paramsGet(parseParams(query), <<"f">>)
  IN IF Truthy(filename) THEN mapSet(contexts, dirname(filename), filename)
     ELSE contexts

(***************************************************************************)
(* RspackModuleRequest                                                     *)
(***************************************************************************)
\* new RspackModuleRequest(babelLoaderPrefix, appRoot, state, isVirtual): the
\* snapshot taken of record r, whose content is st
construct(r, st, virtual) ==
  [state |-> r, specifier |-> st.request, fromFile |-> st.issuer,
   meta |-> st.meta, isVirtual |-> virtual]

\* a repair that takes the oldest tracked filename, whatever it names
fallbackIssuerAnyTracked(st, contexts) ==
  IF contexts # <<>> THEN contexts[1][2]
  ELSE IF Includes(st.context, RewrittenApp)
    THEN st.context \o <<"/">> \o ImplicitModulesFile
  ELSE Undefined

\* the issuer repair of an implicit-modules request: the issuer to use, or
\* Undefined
fallbackIssuer(st, contexts) ==
  LET hits == {i \in 1..Len(contexts) :
                 Includes(contexts[i][2], RewrittenApp)
                 /\ Includes(contexts[i][2], ImplicitModulesFile)}
  IN IF hits # {} THEN contexts[Min(hits)][2]
     ELSE IF Includes(st.context, RewrittenApp)
       THEN st.context \o <<"/">> \o ImplicitModulesFile
     ELSE Undefined

\* RspackModuleRequest.from of rspack-resolver-plugin.ts, on record r with
\* content st: [ret, state, contexts], ret being "request" (an instance was
\* constructed from the returned state), "undefined" (declined) or "throw"
from(st, contexts) ==
  LET declined(c) == [ret |-> "undefined", state |-> st, contexts |-> c]
      implicit == Includes(st.request, ImplicitMarker)
      virtualModule == mapGet(contexts, st.context)
      \* the record after the repair of a missing issuer
      repaired ==
        IF Truthy(issuerOf(st)) THEN st
        ELSE IF implicit THEN
          (IF Truthy(fallbackIssuer(st, contexts))
             THEN setIssuer(st, fallbackIssuer(st, contexts)) ELSE st)
        ELSE IF Truthy(virtualModule) THEN setIssuer(st, virtualModule)
        ELSE st
      hasValidIssuer == IsString(issuerOf(repaired)) /\ issuerOf(repaired) # <<>>
  IN IF ~IsString(st.request) \/ ~IsString(st.context) THEN declined(contexts)
     ELSE IF Includes(st.request, virtualLoaderName)
       THEN declined(trackVirtualModule(contexts, matchQuery(st.request)))
     ELSE IF StartsWith(st.request, <<"!">>) THEN declined(contexts)
     ELSE IF ~Truthy(issuerOf(st)) /\ ~implicit /\ ~Truthy(virtualModule)
       THEN declined(contexts)
     ELSE IF hasValidIssuer \/ implicit
       THEN \* the constructor reads state.contextInfo.issuer
            [ret |-> IF repaired.hasInfo THEN "request" ELSE "throw",
             state |-> repaired, contexts |-> contexts]
     ELSE [ret |-> "undefined", state |-> repaired, contexts |-> contexts]

\* an alias whose returned instance is a snapshot of the record as it was
\* before the write
aliasStale(r, st, this, newSpecifier) ==
  [state |-> [st EXCEPT !.request = newSpecifier],
   ret |-> construct(r, st, FALSE), fresh |-> TRUE]

\* alias(newSpecifier): [state, ret], the record after and the new instance
alias(r, st, this, newSpecifier) ==
  LET next == [st EXCEPT !.request = newSpecifier]
  IN [state |-> next, ret |-> construct(r, next, FALSE), fresh |-> TRUE]

\* a rehome that leaves the record's context directory alone
rehomeKeepsContext(r, st, this, newFromFile) ==
  IF this.fromFile = newFromFile
    THEN [state |-> st, ret |-> this, fresh |-> FALSE]
  ELSE LET next == [st EXCEPT !.issuer = newFromFile]
       IN [state |-> next, ret |-> construct(r, next, FALSE), fresh |-> TRUE]

\* a rehome without the `this.fromFile === newFromFile` test
rehomeAlways(r, st, this, newFromFile) ==
  LET next == [st EXCEPT !.issuer = newFromFile, !.context = dirname(newFromFile)]
  IN [state |-> next, ret |-> construct(r, next, FALSE), fresh |-> TRUE]

\* rehome(newFromFile): returns `this` when the snapshot's fromFile is already
\* newFromFile
rehome(r, st, this, newFromFile) ==
  IF this.fromFile = newFromFile
    THEN [state |-> st, ret |-> this, fresh |-> FALSE]
  ELSE LET next == [st EXCEPT !.issuer = newFromFile, !.context = dirname(newFromFile)]
       IN [state |-> next, ret |-> construct(r, next, FALSE), fresh |-> TRUE]

\* the specifier virtualize builds
virtualSpecifier(prefix, filename, root) ==
  prefix \o virtualLoaderName \o <<"?">> \o serializeParams(filename, root) \o <<"!">>

\* virtualize(filename)
virtualize(r, st, this, filename, prefix, root) ==
  LET next == alias(r, st, this, virtualSpecifier(prefix, filename, root))
  IN [next EXCEPT !.ret.isVirtual = TRUE]

\* a withMeta whose new instance inherits the receiver's isVirtual
withMetaKeepsVirtual(r, st, this, meta) ==
  LET next == [st EXCEPT !.meta = meta]
  IN [state |-> next, ret |-> construct(r, next, this.isVirtual), fresh |-> TRUE]

\* withMeta(meta)
withMeta(r, st, this, meta) ==
  LET next == [st EXCEPT !.meta = meta]
  IN [state |-> next, ret |-> construct(r, next, FALSE), fresh |-> TRUE]

(***************************************************************************)
(* The fallback resolver (getAdaptedResolve)                               *)
(***************************************************************************)
\* An error is modelled by its message; Null is the null err of a callback.
Null == <<"null">>

\* new Error(`Module not found: ${requestToResolve}`)
moduleNotFound(requestToResolve) ==
  <<"M", "o", "d", "u", "l", "e", " ", "n", "o", "t", " ", "f", "o", "u", "n", "d", ":", " ">>
  \o requestToResolve

\* The file system as one existsSync/readFileSync sequence sees it:
\* [files, manifests], files the set of existing paths and manifests the
\* content of the package.json files among them, as a list of
\* [path, valid, module, main] (valid: JSON.parse succeeds).
existsSync(disk, p) == p \in disk.files

\* requestToResolve.match(/^(@?[^/]+\/[^/]+)\/(.+)$/): <<packageName, subpath>>,
\* or Undefined without a match
subpathMatch(s) ==
  LET segs == Split(s, "/")
  IN IF Len(segs) >= 3 /\ segs[1] # <<>> /\ segs[2] # <<>>
        /\ Len(s) > Len(segs[1]) + Len(segs[2]) + 2
       THEN <<segs[1] \o <<"/">> \o segs[2], Drop(s, Len(segs[1]) + Len(segs[2]) + 3)>>
     ELSE Undefined

\* requestToResolve.match(/^(@?[^/]+\/[^/]+)$/): the package name, or Undefined
rootMatch(s) ==
  LET segs == Split(s, "/")
  IN IF Len(segs) = 2 /\ segs[1] # <<>> /\ segs[2] # <<>> THEN s ELSE Undefined

candidatePackageDirs(context, packageName) ==
  << pathJoin(<<context, NodeModules, packageName>>),
     pathJoin(<<context, <<".", ".">>, NodeModules, packageName>>),
     pathJoin(<<context, <<".", ".">>, <<".", ".">>, NodeModules, packageName>>) >>

candidatePaths(packageDir, subpath) ==
  << pathJoin(<<packageDir, <<"s", "r", "c">>, subpath \o <<".", "j", "s">> >>),
     pathJoin(<<packageDir, <<"s", "r", "c">>, subpath \o <<".", "t", "s">> >>),
     pathJoin(<<packageDir, <<"s", "r", "c">>, subpath, <<"i", "n", "d", "e", "x", ".", "j", "s">> >>),
     pathJoin(<<packageDir, <<"s", "r", "c">>, subpath, <<"i", "n", "d", "e", "x", ".", "t", "s">> >>),
     pathJoin(<<packageDir, subpath \o <<".", "j", "s">> >>),
     pathJoin(<<packageDir, subpath \o <<".", "t", "s">> >>),
     pathJoin(<<packageDir, subpath, <<"i", "n", "d", "e", "x", ".", "j", "s">> >>),
     pathJoin(<<packageDir, subpath, <<"i", "n", "d", "e", "x", ".", "t", "s">> >>) >>

\* a probe that takes the first candidate without asking whether it exists
probeFilesUnchecked(candidates, disk, probes) ==
  IF candidates = <<>> THEN [found |-> Undefined, probes |-> probes]
  ELSE [found |-> Head(candidates), probes |-> Append(probes, Head(candidates))]

\* for (const candidatePath of candidates) if (fs.existsSync(candidatePath)) ...:
\* [found, probes], found the first existing candidate (or Undefined) and
\* probes the paths existsSync was asked about, in order
RECURSIVE probeFiles(_, _, _)
probeFiles(candidates, disk, probes) ==
  IF candidates = <<>> THEN [found |-> Undefined, probes |-> probes]
  ELSE IF existsSync(disk, Head(candidates))
    THEN [found |-> Head(candidates), probes |-> Append(probes, Head(candidates))]
  ELSE probeFiles(Tail(candidates), disk, Append(probes, Head(candidates)))

\* the subpath branch: the loop over candidatePackageDirs
RECURSIVE probeSubpath(_, _, _, _)
probeSubpath(dirs, subpath, disk, probes) ==
  IF dirs = <<>> THEN [found |-> Undefined, probes |-> probes]
  ELSE IF ~existsSync(disk, Head(dirs))
    THEN probeSubpath(Tail(dirs), subpath, disk, Append(probes, Head(dirs)))
  ELSE LET inDir == probeFiles(candidatePaths(Head(dirs), subpath), disk,
                               Append(probes, Head(dirs)))
       IN IF inDir.found # Undefined THEN inDir
          ELSE probeSubpath(Tail(dirs), subpath, disk, inDir.probes)

\* process.cwd()
Cwd ==
  <<"/", "c", "w", "d">>

\* path.resolve(from, to)
pathResolve(base, to) ==
  LET joined == IF StartsWith(to, <<"/">>) THEN to
                ELSE IF StartsWith(base, <<"/">>) THEN base \o <<"/">> \o to
                ELSE Cwd \o <<"/">> \o base \o <<"/">> \o to
  IN <<"/">> \o Join(normalizeSegments(Split(joined, "/"), <<>>, FALSE), <<"/">>)

\* JSON.parse(fs.readFileSync(packageJsonPath)): the manifest entry of the
\* disk, invalid when the disk gives the file no parsable content
readManifest(disk, p) ==
  LET hits == {i \in 1..Len(disk.manifests) : disk.manifests[i].path = p}
  IN IF hits = {} THEN [path |-> p, valid |-> FALSE, module |-> Undefined, main |-> Undefined]
     ELSE disk.manifests[Min(hits)]

\* [packageJson.module, packageJson.main, 'src/index.js', ...].filter(Boolean)
entryPoints(manifest) ==
  SelectSeq(<< manifest.module, manifest.main,
  <<"s", "r", "c", "/", "i", "n", "d", "e", "x", ".", "j", "s">>
    ,
  <<"s", "r", "c", "/", "i", "n", "d", "e", "x", ".", "t", "s">>
    ,
  <<"i", "n", "d", "e", "x", ".", "j", "s">>
    ,
  <<"i", "n", "d", "e", "x", ".", "t", "s">>
    >>, Truthy)

\* the root branch: the loop over candidatePackageDirs
RECURSIVE probeRoot(_, _, _)
probeRoot(dirs, disk, probes) ==
  IF dirs = <<>> THEN [found |-> Undefined, probes |-> probes]
  ELSE LET packageDir == Head(dirs)
           packageJsonPath == pathJoin(<<packageDir,
<<"p", "a", "c", "k", "a", "g", "e", ".", "j", "s", "o", "n">>
             >>)
           manifest == readManifest(disk, packageJsonPath)
           entries == entryPoints(manifest)
           paths == [i \in 1..Len(entries) |-> pathResolve(packageDir, entries[i])]
       IN IF ~existsSync(disk, packageDir)
            THEN probeRoot(Tail(dirs), disk, Append(probes, packageDir))
          ELSE IF ~existsSync(disk, packageJsonPath)
            THEN probeRoot(Tail(dirs), disk, probes \o <<packageDir, packageJsonPath>>)
          ELSE IF ~manifest.valid
            THEN probeRoot(Tail(dirs), disk, probes \o <<packageDir, packageJsonPath>>)
          ELSE LET inDir == probeFiles(paths, disk, probes \o <<packageDir, packageJsonPath>>)
               IN IF inDir.found # Undefined THEN inDir
                  ELSE probeRoot(Tail(dirs), disk, inDir.probes)

\* a test that takes every error for an export-restricted one
exportRestrictedAny(err) == err # Null

\* err && err.message && err.message.includes('PackagePathNotExported')
exportRestricted(err) ==
  err # Null /\ Includes(err, PackagePathNotExported)

\* The synchronous part of the function getAdaptedResolve returns, for the
\* instance `this` whose record holds st: [outcome, contexts, context,
\* requestToResolve]; outcome "native" means the native resolver was called
\* and the promise waits for its callback.
resolveStart(this, st, contexts) ==
  IF ~IsString(this.fromFile)
    THEN \* dirname throws inside the promise executor
         [outcome |-> "rejected", contexts |-> contexts,
          context |-> Undefined, requestToResolve |-> Undefined]
  ELSE IF Includes(st.request, <<"!">>)
    THEN [outcome |-> "found",
          contexts |-> IF Includes(st.request, virtualLoaderName)
                         THEN trackVirtualModule(contexts, matchVirtualLoaderQuery(st.request))
                       ELSE contexts,
          context |-> dirname(this.fromFile), requestToResolve |-> st.request]
  ELSE [outcome |-> "native", contexts |-> contexts,
        context |-> dirname(this.fromFile), requestToResolve |-> st.request]

\* The callback given to resolver.resolve, for the call that captured context
\* and requestToResolve, on the record content st:
\* [outcome, err, state, probes].
nativeCallback(context, requestToResolve, st, err, result, disk) ==
  LET notFound(probes) ==
        [outcome |-> "not_found",
         err |-> IF err # Null THEN err ELSE moduleNotFound(requestToResolve),
         state |-> st, probes |-> probes]
      manual(probe) ==
        IF probe.found # Undefined
          THEN [outcome |-> "found", err |-> Null,
                state |-> [st EXCEPT !.request = probe.found], probes |-> probe.probes]
        ELSE notFound(probe.probes)
      sub == subpathMatch(requestToResolve)
      root == rootMatch(requestToResolve)
  IN IF err # Null \/ ~result
       THEN IF exportRestricted(err) /\ sub # Undefined
              THEN manual(probeSubpath(candidatePackageDirs(context, sub[1]), sub[2], disk, <<>>))
            ELSE IF exportRestricted(err) /\ root # Undefined
              THEN manual(probeRoot(candidatePackageDirs(context, root), disk, <<>>))
            ELSE notFound(<<>>)
     ELSE [outcome |-> "found", err |-> Null, state |-> st, probes |-> <<>>]

(***************************************************************************)
(* The compilation-level variant of the plugin                             *)
(***************************************************************************)
\* escapeRegExp(virtualLoaderPath) + '\\?', a literal text, and its length
VirtualRequestStart ==
  [text |-> virtualLoaderPath \o <<"?">>, n |-> Len(virtualLoaderPath) + 1]

\* virtualRequestPattern.exec(userRequest): the group `query`, or Undefined
\* without a match; (?<query>.+)! is greedy, so the query ends at the last '!'
matchVirtualRequest(s) ==
  LET n == VirtualRequestStart.n
      bangs == {q \in 1..Len(s) : s[q] = "!"}
      at == {p \in 1..(Len(s) - n) :
               /\ s[p] = "/"
               /\ SubSeq(s, p, p + n - 1) = VirtualRequestStart.text
               /\ \E q \in bangs : q > p + n}
  IN IF s = Undefined \/ at = {} THEN Undefined
     ELSE SubSeq(s, Min(at) + n, Max(bangs) - 1)

\* for (let dep of state.dependencies) { ... }: [state, threw]
RECURSIVE adjustIssuer(_, _)
adjustIssuer(st, deps) ==
  IF deps = <<>> THEN [state |-> st, threw |-> FALSE]
  ELSE LET query == matchVirtualRequest(Head(deps))
           f == paramsGet(parseParams(query), <<"f">>)
       IN IF query = Undefined THEN adjustIssuer(st, Tail(deps))
          \* state.contextInfo.issuer = ... on an undefined contextInfo
          ELSE IF ~st.hasInfo THEN [state |-> st, threw |-> TRUE]
          \* dirname(null) throws after the issuer was set to null
          ELSE IF f = Undefined
            THEN [state |-> [st EXCEPT !.issuer = Undefined], threw |-> TRUE]
          ELSE adjustIssuer([st EXCEPT !.issuer = f, !.context = dirname(f)], Tail(deps))

\* RspackModuleRequest.from of the compilation-level variant: [ret, state, contexts]
fromDependencies(st, contexts) ==
  LET adjusted == IF ~Truthy(issuerOf(st)) THEN adjustIssuer(st, st.dependencies)
                  ELSE [state |-> st, threw |-> FALSE]
      now == adjusted.state
  IN IF adjusted.threw THEN [ret |-> "throw", state |-> now, contexts |-> contexts]
     ELSE IF /\ IsString(now.request) /\ IsString(now.context)
             /\ IsString(issuerOf(now)) /\ issuerOf(now) # <<>>
             /\ ~Includes(now.request, virtualLoaderName)
             /\ ~StartsWith(now.request, <<"!">>)
       THEN [ret |-> "request", state |-> now, contexts |-> contexts]
     ELSE [ret |-> "undefined", state |-> now, contexts |-> contexts]

(***************************************************************************)
(* The plugin as a state machine                                           *)
(***************************************************************************)
VARIABLES
  babelLoaderPrefix,      \* EmbroiderPlugin.#babelLoaderPrefix
  appRoot,                \* EmbroiderPlugin.#appRoot
  state,                  \* the host's record of each hook invocation
  virtualModuleContexts,  \* EmbroiderPlugin.#virtualModuleContexts
  requests,               \* the RspackModuleRequest instances, in creation order
  pc,                     \* where each hook invocation stands
  callbacks,              \* the arguments of each invocation's callback calls
  native,                 \* native resolver calls that have not called back
  last                    \* the last operation: its inputs and what it returned

vars == <<babelLoaderPrefix, appRoot, state, virtualModuleContexts, requests,
          pc, callbacks, native, last>>

\* the records of the hook invocations the host makes
StateIds == {1, 2}

\* the most RspackModuleRequest instances a run creates
MaxRequests == 3
\* the most native resolver calls in flight at once
MaxNative == 1

\* the record of an invocation the host has not made yet
NoState ==
  [request |-> Undefined, context |-> Undefined, hasInfo |-> FALSE,
   issuer |-> Undefined, meta |-> Undefined, dependencies |-> <<>>]

NoDisk == [files |-> {}, manifests |-> <<>>]

NoOp ==
  [op |-> "none", rec |-> 0, this |-> 0, arg |-> Undefined, ret |-> 0,
   before |-> NoState, contextsBefore |-> <<>>, outcome |-> "none",
   err |-> Null, probes |-> <<>>, disk |-> NoDisk, context |-> Undefined,
   requestToResolve |-> Undefined, repeats |-> FALSE]

\* the instance a transformation returned: a new one is appended to requests
\* and returned; rehome's `return this` returns the receiver
returned(i, res) == IF res.fresh THEN Len(requests) + 1 ELSE i

\* the hook tapped on normalModuleFactory.hooks.resolve, up to the call of
\* the resolver engine, for the host's record r, its content one of raws
HookResolve(r, raws) ==
  /\ pc[r] = "idle"
  /\ \E raw \in raws :
     \E res \in {from(raw, virtualModuleContexts)} :
     /\ res.ret = "request" => Len(requests) < MaxRequests
     /\ state' = [state EXCEPT ![r] = res.state]
     /\ virtualModuleContexts' = res.contexts
     /\ requests' = IF res.ret = "request"
                      THEN Append(requests, construct(r, res.state, FALSE))
                    ELSE requests
     /\ pc' = [pc EXCEPT ![r] = CASE res.ret = "request" -> "engine"
                                  [] res.ret = "undefined" -> "done"
                                  [] OTHER -> "threw"]
     \* if (!request) { callback(); return; }
     /\ callbacks' = IF res.ret = "undefined"
                       THEN [callbacks EXCEPT ![r] = Append(@, "callback()")]
                     ELSE callbacks
     /\ last' = [NoOp EXCEPT !.op = "from", !.rec = r, !.before = raw,
                             !.contextsBefore = virtualModuleContexts,
                             !.outcome = res.ret,
                             !.ret = IF res.ret = "request" THEN Len(requests) + 1 ELSE 0]
     /\ UNCHANGED <<babelLoaderPrefix, appRoot, native>>

\* a transformation that also refreshes the receiver's cached fields
TransformedInPlace(i, op, arg, res) ==
  LET r == requests[i].state
  IN /\ res.fresh => Len(requests) < MaxRequests
     /\ state' = [state EXCEPT ![r] = res.state]
     /\ requests' = IF res.fresh
                      THEN Append([requests EXCEPT ![i] = res.ret], res.ret)
                    ELSE requests
     /\ last' = [NoOp EXCEPT !.op = op, !.rec = r, !.this = i, !.arg = arg,
                             !.ret = returned(i, res), !.before = state[r],
                             !.contextsBefore = virtualModuleContexts,
                             !.repeats = /\ op = "rehome" /\ last.op = "rehome"
                                         /\ last.ret = i /\ last.arg = arg]
     /\ UNCHANGED <<babelLoaderPrefix, appRoot, virtualModuleContexts, pc,
                    callbacks, native>>

\* a transformation that writes into every record, as if the invocations
\* shared one
TransformedEveryRecord(i, op, arg, res) ==
  LET r == requests[i].state
  IN /\ res.fresh => Len(requests) < MaxRequests
     /\ state' = [s \in StateIds |-> IF pc[s] = "idle" THEN state[s] ELSE res.state]
     /\ requests' = IF res.fresh THEN Append(requests, res.ret) ELSE requests
     /\ last' = [NoOp EXCEPT !.op = op, !.rec = r, !.this = i, !.arg = arg,
                             !.ret = returned(i, res), !.before = state[r],
                             !.contextsBefore = virtualModuleContexts,
                             !.repeats = /\ op = "rehome" /\ last.op = "rehome"
                                         /\ last.ret = i /\ last.arg = arg]
     /\ UNCHANGED <<babelLoaderPrefix, appRoot, virtualModuleContexts, pc,
                    callbacks, native>>

\* what a transformation of instance i leaves behind
Transformed(i, op, arg, res) ==
  LET r == requests[i].state
  IN /\ res.fresh => Len(requests) < MaxRequests
     /\ state' = [state EXCEPT ![r] = res.state]
     /\ requests' = IF res.fresh THEN Append(requests, res.ret) ELSE requests
     \* repeats: the call is x.rehome(f) on the x that the call just before,
     \* a rehome(f) too, returned
     /\ last' = [NoOp EXCEPT !.op = op, !.rec = r, !.this = i, !.arg = arg,
                             !.ret = returned(i, res), !.before = state[r],
                             !.contextsBefore = virtualModuleContexts,
                             !.repeats = /\ op = "rehome" /\ last.op = "rehome"
                                         /\ last.ret = i /\ last.arg = arg]
     /\ UNCHANGED <<babelLoaderPrefix, appRoot, virtualModuleContexts, pc,
                    callbacks, native>>

\* the resolver engine calls request.alias(newSpecifier)
CallAlias(i, newSpecifier) ==
  /\ pc[requests[i].state] = "engine"
  /\ \E res \in {alias(requests[i].state, state[requests[i].state], requests[i], newSpecifier)} :
    Transformed(i, "alias", newSpecifier, res)

\* the resolver engine calls request.rehome(newFromFile)
CallRehome(i, newFromFile) ==
  /\ pc[requests[i].state] = "engine"
  /\ \E res \in {rehome(requests[i].state, state[requests[i].state], requests[i], newFromFile)} :
    Transformed(i, "rehome", newFromFile, res)

\* the resolver engine calls request.virtualize(filename)
CallVirtualize(i, filename) ==
  /\ pc[requests[i].state] = "engine"
  /\ \E res \in {virtualize(requests[i].state, state[requests[i].state], requests[i],
                        filename, babelLoaderPrefix, appRoot)} :
    Transformed(i, "virtualize", filename, res)

\* the resolver engine calls request.withMeta(meta)
CallWithMeta(i, meta) ==
  /\ pc[requests[i].state] = "engine"
  /\ \E res \in {withMeta(requests[i].state, state[requests[i].state], requests[i], meta)} :
    Transformed(i, "withMeta", meta, res)

\* the resolver engine calls the fallback resolver with instance i: the
\* promise executor up to its return
CallAdaptedResolve(i) ==
  /\ pc[requests[i].state] = "engine"
  /\ \E res \in {resolveStart(requests[i], state[requests[i].state], virtualModuleContexts)} :
       LET r == requests[i].state
           call == [request |-> i, context |-> res.context,
                    requestToResolve |-> res.requestToResolve]
       IN /\ res.outcome = "native" => Cardinality(native) < MaxNative /\ call \notin native
          /\ virtualModuleContexts' = res.contexts
          /\ native' = IF res.outcome = "native" THEN native \cup {call} ELSE native
          /\ last' = [NoOp EXCEPT !.op = "resolve", !.rec = r, !.this = i,
                                  !.before = state[r],
                                  !.contextsBefore = virtualModuleContexts,
                                  !.outcome = res.outcome, !.context = res.context,
                                  !.requestToResolve = res.requestToResolve]
          /\ UNCHANGED <<babelLoaderPrefix, appRoot, state, requests, pc, callbacks>>

\* the native resolver calls back with (err, result), the file system being disk
NativeCallback(call, err, result, disk) ==
  /\ call \in native
  /\ \E res \in {nativeCallback(call.context, call.requestToResolve,
                                 state[requests[call.request].state], err, result, disk)} :
       LET r == requests[call.request].state
       IN /\ native' = native \ {call}
          /\ state' = [state EXCEPT ![r] = res.state]
          /\ last' = [NoOp EXCEPT !.op = "native", !.rec = r, !.this = call.request,
                                  !.arg = err, !.before = state[r],
                                  !.contextsBefore = virtualModuleContexts,
                                  !.outcome = res.outcome, !.err = res.err,
                                  !.probes = res.probes, !.disk = disk,
                                  !.context = call.context,
                                  !.requestToResolve = call.requestToResolve]
          /\ UNCHANGED <<babelLoaderPrefix, appRoot, virtualModuleContexts, requests,
                         pc, callbacks>>

\* the promise of this.#resolver.resolve(request, adaptedResolve) settles and
\* the hook completes the host's callback; the engine has no fallback call
\* in flight when it settles
EngineSettles(r, outcome) ==
  /\ pc[r] = "engine"
  /\ \A call \in native : requests[call.request].state # r
  /\ pc' = [pc EXCEPT ![r] = "done"]
  /\ callbacks' = [callbacks EXCEPT ![r] =
       Append(@, CASE outcome = "not_found" -> "callback()"
                   [] outcome = "found" -> "callback(null)"
                   [] OTHER -> "callback(err)")]
  /\ last' = [NoOp EXCEPT !.op = "settle", !.rec = r, !.outcome = outcome]
  /\ UNCHANGED <<babelLoaderPrefix, appRoot, state, virtualModuleContexts,
                 requests, native>>

(***************************************************************************)
(* The compilation-level variant as a state machine: the transformations   *)
(* are those above                                                         *)
(***************************************************************************)
\* the hook of the variant, up to the call of the resolver engine or of the
\* host's default resolve hook
HookResolveCompilation(r, raws) ==
  /\ pc[r] = "idle"
  /\ \E raw \in raws :
     \E res \in {fromDependencies(raw, virtualModuleContexts)} :
     /\ res.ret = "request" => Len(requests) < MaxRequests
     /\ state' = [state EXCEPT ![r] = res.state]
     /\ requests' = IF res.ret = "request"
                      THEN Append(requests, construct(r, res.state, FALSE))
                    ELSE requests
     \* if (!request) { defaultResolve(state, callback); return; }
     /\ pc' = [pc EXCEPT ![r] = CASE res.ret = "request" -> "engine"
                                  [] res.ret = "undefined" -> "default"
                                  [] OTHER -> "threw"]
     /\ last' = [NoOp EXCEPT !.op = "from", !.rec = r, !.before = raw,
                             !.outcome = res.ret,
                             !.ret = IF res.ret = "request" THEN Len(requests) + 1 ELSE 0]
     /\ UNCHANGED <<babelLoaderPrefix, appRoot, virtualModuleContexts, callbacks, native>>

\* the host's default resolve hook, given the callback of a declined
\* request, completes it
DefaultResolveCompletes(r, arg) ==
  /\ pc[r] = "default"
  /\ pc' = [pc EXCEPT ![r] = "done"]
  /\ callbacks' = [callbacks EXCEPT ![r] = Append(@, arg)]
  /\ last' = [NoOp EXCEPT !.op = "default", !.rec = r]
  /\ UNCHANGED <<babelLoaderPrefix, appRoot, state, virtualModuleContexts,
                 requests, native>>

\* the variant's fallback resolver: defaultResolve(request.state, cb)
CallDefaultResolve(i) ==
  LET call == [request |-> i, context |-> Undefined, requestToResolve |-> Undefined]
  IN /\ pc[requests[i].state] = "engine"
     /\ Cardinality(native) < MaxNative /\ call \notin native
     /\ native' = native \cup {call}
     /\ last' = [NoOp EXCEPT !.op = "resolve", !.rec = requests[i].state, !.this = i,
                             !.before = state[requests[i].state], !.outcome = "native"]
     /\ UNCHANGED <<babelLoaderPrefix, appRoot, state, virtualModuleContexts,
                    requests, pc, callbacks>>

\* the default resolve hook calls back: not_found with err, or found
DefaultResolveCallback(call, err) ==
  /\ call \in native
  /\ native' = native \ {call}
  /\ last' = [NoOp EXCEPT !.op = "native", !.rec = requests[call.request].state,
                          !.this = call.request, !.arg = err,
                          !.before = state[requests[call.request].state],
                          !.outcome = IF err # Null THEN "not_found" ELSE "found",
                          !.err = err]
  /\ UNCHANGED <<babelLoaderPrefix, appRoot, state, virtualModuleContexts,
                 requests, pc, callbacks>>

\* the engine's promise settles and the variant's hook completes the callback
EngineSettlesCompilation(r, outcome) ==
  /\ pc[r] = "engine"
  /\ \A call \in native : requests[call.request].state # r
  /\ pc' = [pc EXCEPT ![r] = "done"]
  /\ callbacks' = [callbacks EXCEPT ![r] =
       Append(@, CASE outcome = "not_found" -> "callback(resolution.err)"
                   [] outcome = "found" -> "callback(null)"
                   [] OTHER -> "callback(err)")]
  /\ last' = [NoOp EXCEPT !.op = "settle", !.rec = r, !.outcome = outcome]
  /\ UNCHANGED <<babelLoaderPrefix, appRoot, state, virtualModuleContexts,
                 requests, native>>

(***************************************************************************)
(* The inputs the host, the resolver engine and the native resolver give   *)
(***************************************************************************)
\* '/app/foo.js'
FooJs ==
  <<"/", "a", "p", "p", "/", "f", "o", "o", ".", "j", "s">>
\* '/app/bar.js', a second file of the same directory
BarJs ==
  <<"/", "a", "p", "p", "/", "b", "a", "r", ".", "j", "s">>
\* a filename made of the characters the query encoding has to escape
OddJs ==
  <<"/", "a", " ", "b", "/", "c", "&", "d", "=", "e", "!", "+", "%", "?", ".", "j", "s">>
\* '/a/b/c/x.js', a file three directories deep
DeepJs ==
  <<"/", "a", "/", "b", "/", "c", "/", "x", ".", "j", "s">>
\* the implicit-modules file of the rewritten app
AppImplicitJs ==
  <<"/", "r", "e", "w", "r", "i", "t", "t", "e", "n", "-", "a", "p", "p", "/", "-", "e",
    "m", "b", "r", "o", "i", "d", "e", "r", "-", "i", "m", "p", "l", "i", "c", "i", "t",
    "-", "m", "o", "d", "u", "l", "e", "s", ".", "j", "s">>
\* the implicit-modules file of a second rewritten app
EngineImplicitJs ==
  <<"/", "e", "/", "r", "e", "w", "r", "i", "t", "t", "e", "n", "-", "a", "p", "p", "/",
    "-", "e", "m", "b", "r", "o", "i", "d", "e", "r", "-", "i", "m", "p", "l", "i", "c",
    "i", "t", "-", "m", "o", "d", "u", "l", "e", "s", ".", "j", "s">>
\* '/app'
AppDir ==
  <<"/", "a", "p", "p">>
\* '/other', a directory no virtual module lives in
OtherDir ==
  <<"/", "o", "t", "h", "e", "r">>
\* '/rewritten-app'
RewrittenDir ==
  <<"/", "r", "e", "w", "r", "i", "t", "t", "e", "n", "-", "a", "p", "p">>
\* './x'
RelativeRequest ==
  <<".", "/", "x">>
\* '!x', a request for one of the host's internal resolvers
LoaderRequest ==
  <<"!", "x">>
\* 'l!./x', a request with a loader chain
ChainRequest ==
  <<"l", "!", ".", "/", "x">>
\* './-embroider-implicit-modules.js'
ImplicitRequest ==
  <<".", "/", "-", "e", "m", "b", "r", "o", "i", "d", "e", "r", "-", "i", "m", "p", "l",
    "i", "c", "i", "t", "-", "m", "o", "d", "u", "l", "e", "s", ".", "j", "s">>
\* '@s/p/d/q', a subpath import of the scoped package @s/p
ScopedSubpath ==
  <<"@", "s", "/", "p", "/", "d", "/", "q">>
\* '@s/p', the scoped package itself
ScopedRoot ==
  <<"@", "s", "/", "p">>
\* 'p/q', a subpath import of the package p
PlainSubpath ==
  <<"p", "/", "q">>
\* 'p/d/q', a deeper subpath import of the package p
PlainDeepSubpath ==
  <<"p", "/", "d", "/", "q">>
\* 'p', the package itself
PlainRoot ==
  <<"p">>

\* the plugin's configuration, <<babelLoaderPrefix, appRoot>>: a loader
\* without options
PlainConfig == << <<"b", "!">>, AppDir >>
\* and with it a loader with options, the app root having characters the
\* query encoding escapes
Configs ==
  { PlainConfig,
    << <<"b", "?", "c", "!">>,
  <<"/", "m", "y", " ", "a", "p", "p", "&", "c", "o">>
    >> }

\* a host record
hostRecord(req, ctx, info, deps) ==
  [request |-> req, context |-> ctx, hasInfo |-> info[1], issuer |-> info[2],
   meta |-> Undefined, dependencies |-> deps]

\* the records the host hands to the hook, state.contextInfo being
\* <<hasInfo, issuer>>: the context is not the issuer's directory
HostRecords ==
  { hostRecord(req, OtherDir, info, <<>>) :
      req \in {RelativeRequest, virtualSpecifier(babelLoaderPrefix, FooJs, appRoot)},
      info \in { <<TRUE, FooJs>>, <<TRUE, <<>> >> } }

\* the arguments the resolver engine gives the transformations
AliasTargets == {ScopedSubpath}
RehomeTargets == {FooJs, BarJs}
VirtualFiles == {BarJs, OddJs}
Metas == {<<"{a:1}">>}
AllMetas == Metas \cup {Undefined}

\* the native resolver's replies <<err, result>>: success, failure without an
\* error, an error without a message, a plain failure, an export-restricted one
ExportError ==
  <<"P", "a", "c", "k", "a", "g", "e", "P", "a", "t", "h", "N", "o", "t", "E", "x", "p",
    "o", "r", "t", "e", "d", "(", "x", ")">>
PlainError ==
  <<"N", "o", "t", "F", "o", "u", "n", "d", "(", "x", ")">>
NativeReplies ==
  { <<Null, TRUE>>, <<Null, FALSE>>, << <<>>, FALSE>>, <<PlainError, FALSE>>,
    <<ExportError, FALSE>> }
\* success and the export-restricted failure
MainReplies == { <<Null, TRUE>>, <<ExportError, FALSE>> }

\* a disk holding the given files and all their ancestor directories
RECURSIVE ancestors(_)
ancestors(p) ==
  IF dirname(p) = p THEN {p} ELSE {p} \cup ancestors(dirname(p))
diskOf(files, manifests) ==
  [files |-> UNION {ancestors(f) : f \in files}, manifests |-> manifests]

\* a file system on which the subpath import of @s/p resolves from /app
Disks ==
  { diskOf({
  <<"/", "a", "p", "p", "/", "n", "o", "d", "e", "_", "m", "o", "d", "u", "l", "e", "s",
    "/", "@", "s", "/", "p", "/", "s", "r", "c", "/", "d", "/", "q", ".", "t", "s">>
      }, <<>>) }

\* the disk matters only after an export-restricted failure of a request
\* that one of the two patterns matches or that is a bare package name
disksFor(err, requestToResolve, disks) ==
  IF /\ exportRestricted(err)
     /\ \/ subpathMatch(requestToResolve) # Undefined
        \/ rootMatch(requestToResolve) # Undefined
        \/ requestToResolve # <<>> /\ ~Includes(requestToResolve, <<"/">>)
    THEN disks
  ELSE {NoDisk}

\* the plugin after construction, configured by one of configs, the tracker
\* holding one of trackers
InitWith(configs, trackers) ==
  /\ \E c \in configs : babelLoaderPrefix = c[1] /\ appRoot = c[2]
  /\ state = [r \in StateIds |-> NoState]
  /\ virtualModuleContexts \in trackers
  /\ requests = <<>>
  /\ pc = [r \in StateIds |-> "idle"]
  /\ callbacks = [r \in StateIds |-> <<>>]
  /\ native = {}
  /\ last = NoOp

Init == InitWith({PlainConfig}, {<<>>})

\* one hook invocation and what the resolver engine may do with its request
Next ==
  \/ HookResolve(1, HostRecords)
  \/ \E i \in 1..Len(requests) : \E s \in AliasTargets : CallAlias(i, s)
  \/ \E i \in 1..Len(requests) : \E f \in RehomeTargets : CallRehome(i, f)
  \/ \E i \in 1..Len(requests) : CallVirtualize(i, BarJs)
  \/ \E i \in 1..Len(requests) : \E m \in Metas : CallWithMeta(i, m)
  \/ \E i \in 1..Len(requests) : CallAdaptedResolve(i)
  \/ \E call \in native : \E reply \in MainReplies :
       \E disk \in disksFor(reply[1], call.requestToResolve, Disks) :
         NativeCallback(call, reply[1], reply[2], disk)
  \/ \E outcome \in {"found", "not_found", "rejected"} : EngineSettles(1, outcome)

Spec == Init /\ [][Next]_vars

(***************************************************************************)
(* RspackModuleRequest.from on every kind of record, the tracker holding   *)
(* what earlier resolutions of the build left in it                        *)
(***************************************************************************)
\* the virtual-loader requests the host may pass: with the filename
\* parameter, without a query, with a query that has no f, with an empty f
VirtualRequests ==
  { virtualSpecifier(babelLoaderPrefix, BarJs, appRoot),
    babelLoaderPrefix \o virtualLoaderName,
    babelLoaderPrefix \o virtualLoaderName \o
  <<"?", "a", "=", "%", "2", "F", "a", "p", "p", "!">>
    ,
    babelLoaderPrefix \o virtualLoaderName \o
  <<"?", "f", "=", "&", "a", "=", "%", "2", "F", "a", "p", "p", "!">>
    }

AllHostRecords ==
  { hostRecord(req, ctx, info, <<>>) :
      req \in {RelativeRequest, ImplicitRequest, LoaderRequest, ChainRequest, NotString}
              \cup VirtualRequests,
      ctx \in {AppDir, OtherDir, RewrittenDir, NotString},
      info \in { <<TRUE, FooJs>>, <<TRUE, <<>> >>, <<TRUE, Undefined>>,
                 <<TRUE, NotString>>, <<FALSE, Undefined>> } }

\* the tracker after the virtual modules of files were seen, in that order
RECURSIVE trackedAfter(_)
trackedAfter(files) ==
  IF files = <<>> THEN <<>>
  ELSE mapSet(trackedAfter(SubSeq(files, 1, Len(files) - 1)),
              dirname(files[Len(files)]), files[Len(files)])

\* the virtual modules earlier resolutions may have seen
TrackedFiles == {FooJs, BarJs, AppImplicitJs, EngineImplicitJs}
Trackers ==
  {trackedAfter(<<>>)} \cup {trackedAfter(<<f>>) : f \in TrackedFiles}
    \cup {trackedAfter(<<f, g>>) : f \in TrackedFiles, g \in TrackedFiles}

InitFrom == InitWith(Configs, Trackers)

NextFrom == HookResolve(1, AllHostRecords)

SpecFrom == InitFrom /\ [][NextFrom]_vars

(***************************************************************************)
(* virtualize under every configuration                                    *)
(***************************************************************************)
InitVirtualize == InitWith(Configs, {<<>>})

NextVirtualize ==
  \/ HookResolve(1, HostRecords)
  \/ \E i \in 1..Len(requests) : \E f \in VirtualFiles : CallVirtualize(i, f)
  \/ \E i \in 1..Len(requests) : CallAdaptedResolve(i)
  \/ \E call \in native : \E reply \in MainReplies :
       \E disk \in disksFor(reply[1], call.requestToResolve, Disks) :
         NativeCallback(call, reply[1], reply[2], disk)

SpecVirtualize == InitVirtualize /\ [][NextVirtualize]_vars

(***************************************************************************)
(* The fallback resolver on every kind of request and disk                 *)
(***************************************************************************)
\* the records whose requests the engine hands to the fallback resolver
FallbackRecords ==
  { hostRecord(req, AppDir, info, <<>>) :
      req \in {RelativeRequest, ChainRequest, ImplicitRequest, ScopedSubpath,
               ScopedRoot, PlainSubpath, PlainDeepSubpath, PlainRoot},
      info \in { <<TRUE, DeepJs>>, <<TRUE, <<>> >>, <<TRUE, Undefined>> } }

\* the candidate package directories of @s/p and of p seen from /a/b/c
NearScoped ==
  <<"/", "a", "/", "b", "/", "c", "/", "n", "o", "d", "e", "_", "m", "o", "d", "u", "l",
    "e", "s", "/", "@", "s", "/", "p">>
MiddleScoped ==
  <<"/", "a", "/", "b", "/", "n", "o", "d", "e", "_", "m", "o", "d", "u", "l", "e", "s",
    "/", "@", "s", "/", "p">>
FarScoped ==
  <<"/", "a", "/", "n", "o", "d", "e", "_", "m", "o", "d", "u", "l", "e", "s", "/", "@",
    "s", "/", "p">>
NearPlain ==
  <<"/", "a", "/", "b", "/", "c", "/", "n", "o", "d", "e", "_", "m", "o", "d", "u", "l",
    "e", "s", "/", "p">>

\* the files a subpath import d/q may resolve to inside a package directory
subpathFiles(packageDir) ==
  { packageDir \o tail : tail \in {
  <<"/", "s", "r", "c", "/", "d", "/", "q", ".", "j", "s">>
    ,
  <<"/", "s", "r", "c", "/", "d", "/", "q", ".", "t", "s">>
    ,
  <<"/", "s", "r", "c", "/", "d", "/", "q", "/", "i", "n", "d", "e", "x", ".", "j", "s">>
    ,
  <<"/", "s", "r", "c", "/", "d", "/", "q", "/", "i", "n", "d", "e", "x", ".", "t", "s">>
    ,
  <<"/", "d", "/", "q", ".", "j", "s">>
    ,
  <<"/", "d", "/", "q", ".", "t", "s">>
    ,
  <<"/", "d", "/", "q", "/", "i", "n", "d", "e", "x", ".", "j", "s">>
    ,
  <<"/", "d", "/", "q", "/", "i", "n", "d", "e", "x", ".", "t", "s">>
    } }

\* the paths the disks are made of: every candidate of the nearest package
\* directory, that directory alone, and candidates of the farther ones and
\* of the unscoped package
DiskPaths ==
  subpathFiles(NearScoped) \cup {NearScoped}
    \cup { MiddleScoped \o
  <<"/", "s", "r", "c", "/", "d", "/", "q", ".", "j", "s">>
           , FarScoped \o
  <<"/", "d", "/", "q", "/", "i", "n", "d", "e", "x", ".", "t", "s">>
           , NearPlain \o
  <<"/", "s", "r", "c", "/", "q", ".", "j", "s">>
           , NearPlain \o
  <<"/", "d", "/", "q", ".", "j", "s">>
           }

\* every disk holding at most two of them
FallbackDisks ==
  { diskOf({p, q}, <<>>) : p \in DiskPaths, q \in DiskPaths } \cup {NoDisk}

\* package.json of a package directory
manifestPath(packageDir) == packageDir \o <<"/", "p", "a", "c", "k", "a", "g", "e", ".", "j", "s", "o", "n">>

\* a disk on which packageDir holds a manifest with the given module and main
\* fields (valid: the file parses) and the given files
packageDisk(packageDir, valid, module, main, files) ==
  diskOf(files \cup {manifestPath(packageDir)},
         << [path |-> manifestPath(packageDir), valid |-> valid,
             module |-> module, main |-> main] >>)

\* the entry points a root import of a package directory may resolve to
entryFiles(packageDir) ==
  { packageDir \o tail : tail \in {
  <<"/", "l", "i", "b", "/", "m", ".", "j", "s">>
    ,
  <<"/", "l", "i", "b", "/", "n", ".", "j", "s">>
    ,
  <<"/", "s", "r", "c", "/", "i", "n", "d", "e", "x", ".", "j", "s">>
    ,
  <<"/", "s", "r", "c", "/", "i", "n", "d", "e", "x", ".", "t", "s">>
    ,
  <<"/", "i", "n", "d", "e", "x", ".", "j", "s">>
    ,
  <<"/", "i", "n", "d", "e", "x", ".", "t", "s">>
    } }

\* the manifests <<valid, module, main>>: main alone, module and main, no
\* field, a file that does not parse
Manifests ==
  { <<TRUE, Undefined, <<".", "/", "i", "n", "d", "e", "x", ".", "j", "s">>>>,
    <<TRUE, <<"l", "i", "b", "/", "m", ".", "j", "s">>, <<"l", "i", "b", "/", "n", ".", "j", "s">>>>,
    <<TRUE, Undefined, Undefined>>,
    <<FALSE, Undefined, Undefined>> }

\* the disks of a root import: the nearest directory of @s/p with every
\* manifest and at most two entry files; that directory without a manifest,
\* or with a manifest and no entry file, before a farther one that resolves;
\* and the unscoped package p
RootDisks ==
  { packageDisk(NearScoped, mf[1], mf[2], mf[3], {p, q}) :
      mf \in Manifests, p \in entryFiles(NearScoped) \cup {NearScoped},
      q \in entryFiles(NearScoped) \cup {NearScoped} }
  \cup
  { [files |-> near.files \cup far.files, manifests |-> near.manifests \o far.manifests] :
      near \in { diskOf({NearScoped}, <<>>),
                 packageDisk(NearScoped, TRUE, Undefined, Undefined, {}),
                 packageDisk(NearScoped, FALSE, Undefined, Undefined, {}) },
      far \in { packageDisk(MiddleScoped, TRUE, Undefined, <<".", "/", "i", "n", "d", "e", "x", ".", "j", "s">>,
                            {MiddleScoped \o <<"/", "i", "n", "d", "e", "x", ".", "j", "s">>}) } }
  \cup
  { packageDisk(NearPlain, TRUE, Undefined, <<".", "/", "i", "n", "d", "e", "x", ".", "j", "s">>, {NearPlain \o <<"/", "i", "n", "d", "e", "x", ".", "j", "s">>}) }

NextFallback ==
  \/ HookResolve(1, FallbackRecords)
  \/ \E i \in 1..Len(requests) : CallVirtualize(i, FooJs)
  \/ \E i \in 1..Len(requests) : CallAdaptedResolve(i)
  \/ \E call \in native : \E reply \in NativeReplies :
       \E disk \in disksFor(reply[1], call.requestToResolve, FallbackDisks \cup RootDisks) :
         NativeCallback(call, reply[1], reply[2], disk)

SpecFallback == Init /\ [][NextFallback]_vars

(***************************************************************************)
(* The compilation-level variant                                           *)
(***************************************************************************)
\* dep._parentModule.userRequest of a module the virtual loader emitted, and
\* of one whose query names no file
VirtualParent ==
  <<"b", "!">> \o virtualLoaderPath \o <<"?">> \o serializeParams(FooJs, AppDir) \o <<"!">>
NamelessParent ==
  <<"b", "!">> \o virtualLoaderPath \o
  <<"?", "a", "=", "%", "2", "F", "a", "p", "p", "!">>

CompilationRecords ==
  { hostRecord(req, ctx, info, deps) :
      req \in {RelativeRequest, LoaderRequest, NotString,
               virtualSpecifier(babelLoaderPrefix, FooJs, appRoot)},
      ctx \in {AppDir, OtherDir},
      info \in { <<TRUE, FooJs>>, <<TRUE, <<>> >>, <<FALSE, Undefined>> },
      deps \in { <<>>, <<VirtualParent>>, <<NamelessParent>>,
                 <<RelativeRequest, VirtualParent>> } }

NextCompilation ==
  \/ HookResolveCompilation(1, CompilationRecords)
  \/ \E arg \in {"callback()", "callback(err)"} : DefaultResolveCompletes(1, arg)
  \/ \E i \in 1..Len(requests) : \E s \in AliasTargets : CallAlias(i, s)
  \/ \E i \in 1..Len(requests) : \E f \in RehomeTargets : CallRehome(i, f)
  \/ \E i \in 1..Len(requests) : \E f \in VirtualFiles : CallVirtualize(i, f)
  \/ \E i \in 1..Len(requests) : \E m \in AllMetas : CallWithMeta(i, m)
  \/ \E i \in 1..Len(requests) : CallDefaultResolve(i)
  \/ \E call \in native : \E err \in {Null, PlainError} : DefaultResolveCallback(call, err)
  \/ \E outcome \in {"found", "not_found", "rejected"} :
       EngineSettlesCompilation(1, outcome)

SpecCompilation == Init /\ [][NextCompilation]_vars

(***************************************************************************)
(* One hook invocation up to its completion callback, the resolver         *)
(* engine's promise settling and the native resolver calling back          *)
(***************************************************************************)
\* records from accepts, declines, and an implicit-modules request without
\* contextInfo outside the rewritten app
LiveRecords ==
  { hostRecord(RelativeRequest, OtherDir, <<TRUE, FooJs>>, <<>>),
    hostRecord(RelativeRequest, OtherDir, <<TRUE, <<>>>>, <<>>),
    hostRecord(ImplicitRequest, OtherDir, <<TRUE, <<>>>>, <<>>),
    hostRecord(ImplicitRequest, OtherDir, <<FALSE, Undefined>>, <<>>),
    hostRecord(ImplicitRequest, RewrittenDir, <<FALSE, Undefined>>, <<>>) }

\* the native resolver calls back
NativeReplies1 ==
  \E call \in native : \E reply \in MainReplies :
    \E disk \in disksFor(reply[1], call.requestToResolve, Disks) :
      NativeCallback(call, reply[1], reply[2], disk)

\* the resolver engine's promise settles
EngineSettles1 ==
  \E outcome \in {"found", "not_found", "rejected"} : EngineSettles(1, outcome)

NextLive ==
  \/ HookResolve(1, LiveRecords)
  \/ \E i \in 1..Len(requests) : \E s \in AliasTargets : CallAlias(i, s)
  \/ \E i \in 1..Len(requests) : CallVirtualize(i, BarJs)
  \/ \E i \in 1..Len(requests) : CallAdaptedResolve(i)
  \/ NativeReplies1
  \/ EngineSettles1

\* the engine may call the fallback again and again before it settles, so
\* settling is assumed strongly; a pending native call stays pending until
\* it is answered
SpecLive ==
  /\ Init /\ [][NextLive]_vars
  /\ WF_vars(NativeReplies1)
  /\ SF_vars(EngineSettles1)

(***************************************************************************)
(* Two hook invocations on distinct records, their steps interleaved at    *)
(* the calls into the engine and into the native resolver                  *)
(***************************************************************************)
\* an import of a module and the host's load of a virtual module
ConcurrentRecords ==
  { hostRecord(RelativeRequest, OtherDir, <<TRUE, FooJs>>, <<>>),
    hostRecord(virtualSpecifier(babelLoaderPrefix, FooJs, appRoot), OtherDir,
               <<TRUE, <<>>>>, <<>>) }

NextConcurrent ==
  \/ \E r \in StateIds : HookResolve(r, ConcurrentRecords)
  \/ \E i \in 1..Len(requests) : \E s \in AliasTargets : CallAlias(i, s)
  \/ \E i \in 1..Len(requests) : CallRehome(i, BarJs)
  \/ \E i \in 1..Len(requests) : CallVirtualize(i, OddJs)
  \/ \E i \in 1..Len(requests) : \E m \in Metas : CallWithMeta(i, m)
  \/ \E i \in 1..Len(requests) : CallAdaptedResolve(i)
  \/ \E call \in native :
       NativeCallback(call, Null, TRUE, NoDisk)
  \/ \E r \in StateIds : EngineSettles(r, "found")

SpecConcurrent == Init /\ [][NextConcurrent]_vars

(***************************************************************************)
(* Properties                                                              *)
(***************************************************************************)
Transformations == {"alias", "rehome", "virtualize", "withMeta"}

\* C1: when RspackModuleRequest.from declines (returns undefined), the
\* record's request, context and contextInfo (its issuer included) are what
\* they were before the call. The compilation-level from breaks it: it
\* takes issuer and context from the dependencies before it declines.
DeclineLeavesRecord ==
  (last.op = "from" /\ last.outcome = "undefined")
    => /\ state[last.rec].request = last.before.request
       /\ state[last.rec].context = last.before.context
       /\ state[last.rec].hasInfo = last.before.hasInfo
       /\ state[last.rec].issuer = last.before.issuer
       /\ state[last.rec].meta = last.before.meta

\* C2: whatever alias, rehome, virtualize, withMeta and the fallback
\* resolver do next, an instance that exists keeps its specifier, fromFile,
\* meta and isVirtual.
InstancesKeepFields ==
  [][\A i \in DOMAIN requests :
       /\ requests'[i].specifier = requests[i].specifier
       /\ requests'[i].fromFile = requests[i].fromFile
       /\ requests'[i].meta = requests[i].meta
       /\ requests'[i].isVirtual = requests[i].isVirtual]_vars

\* C2, reached: the fallback resolver has rewritten the record's specifier of
\* an invocation with three instances, the first two of them superseded
SupersededInstancesExist ==
  /\ last.op = "native" /\ last.outcome = "found"
  /\ state[last.rec].request # last.before.request
  /\ Len(requests) = 3
  /\ requests[1].specifier # requests[3].specifier
  /\ requests[1].specifier # state[last.rec].request

\* the change a transformation is to write into the record
written(op, arg, st) ==
  CASE op = "alias" -> st.request = arg
    [] op = "rehome" -> st.issuer = arg /\ st.context = dirname(arg)
    [] op = "virtualize" -> st.request = virtualSpecifier(babelLoaderPrefix, arg, appRoot)
    [] op = "withMeta" -> st.meta = arg
    [] OTHER -> FALSE

\* the instance mirrors the record
mirrors(inst, st) ==
  inst.specifier = st.request /\ inst.fromFile = st.issuer /\ inst.meta = st.meta

\* C3, as stated: every alias, rehome, virtualize and withMeta writes its
\* change into the record and returns an instance other than the receiver
\* whose specifier, fromFile and meta are the record's request, issuer and
\* metadata. rehome(x) on a receiver whose fromFile is x breaks it.
TransformationReturnsNewInstance ==
  last.op \in Transformations
    => /\ written(last.op, last.arg, state[last.rec])
       /\ last.ret # last.this
       /\ mirrors(requests[last.ret], state[last.rec])

\* C3, amended: alias, virtualize, withMeta, and rehome(x) on a receiver whose
\* fromFile is not x, write the change into the record and return the newest
\* instance, which is not the receiver and mirrors the record; rehome(x) on a
\* receiver whose fromFile is x returns the receiver and leaves the record as
\* it was.
TransformationReturnsNewInstanceUnlessAtHome ==
  last.op \in Transformations
    => IF last.op = "rehome" /\ requests[last.this].fromFile = last.arg
         THEN last.ret = last.this /\ state[last.rec] = last.before
       ELSE /\ written(last.op, last.arg, state[last.rec])
            /\ last.ret # last.this /\ last.ret = Len(requests)
            /\ mirrors(requests[last.ret], state[last.rec])

\* C3, reached: a superseded instance was rehomed to its own fromFile and came
\* back itself, the record naming another issuer
RehomedAtHomeWhileStale ==
  /\ last.op = "rehome" /\ last.ret = last.this
  /\ requests[last.this].fromFile = last.arg
  /\ state[last.rec].issuer # last.arg
  /\ Len(requests) >= 2

\* C4, as stated: after r.rehome(x), for any r, superseded ones included, the
\* record's issuer is x, its context is dirname(x) and the returned
\* instance's fromFile is x.
RehomeSetsIssuerAndContext ==
  last.op = "rehome"
    => /\ state[last.rec].issuer = last.arg
       /\ state[last.rec].context = dirname(last.arg)
       /\ requests[last.ret].fromFile = last.arg

\* C4, amended: after r.rehome(x) the returned instance's fromFile is x; when
\* r's own fromFile is not x, the record's issuer is x and its context is
\* dirname(x), r being superseded or not; when r's own fromFile is x, r is
\* returned and issuer and context of the record stay as they were.
RehomeSetsIssuerAndContextUnlessAtHome ==
  last.op = "rehome"
    => /\ requests[last.ret].fromFile = last.arg
       /\ IF requests[last.this].fromFile # last.arg
            THEN /\ state[last.rec].issuer = last.arg
                 /\ state[last.rec].context = dirname(last.arg)
          ELSE /\ last.ret = last.this
               /\ state[last.rec].issuer = last.before.issuer
               /\ state[last.rec].context = last.before.context

\* C4, reached: a superseded instance was rehomed away from its fromFile, the
\* record's context before the call being another directory
SupersededRehomed ==
  /\ last.op = "rehome" /\ last.ret # last.this
  /\ last.this + 1 < last.ret
  /\ last.before.context # dirname(last.arg)
  /\ state[last.rec].context = dirname(last.arg)

\* C5: the second call of r.rehome(x).rehome(x) returns the instance the
\* first call returned, creates no instance and changes nothing in the record.
RehomeIdempotent ==
  last.repeats
    => /\ last.ret = last.this
       /\ state[last.rec] = last.before
       /\ requests[last.ret].fromFile = last.arg

\* C5, reached: the first call made a new instance, the second was made on it
RehomedTwice ==
  /\ last.repeats /\ last.this > 1
  /\ requests[last.this - 1].fromFile # last.arg
  /\ requests[last.this].fromFile = last.arg

\* C6: virtualize(f) sets the record's specifier to
\* <babelLoaderPrefix><virtualLoaderName>?f=<enc f>&a=<enc appRoot>!, and the
\* query parameters parsed from that specifier are f for 'f' and the app
\* root for 'a'.
VirtualizeRoundTrip ==
  last.op = "virtualize"
    => LET specifier == state[last.rec].request
           start == babelLoaderPrefix \o virtualLoaderName \o <<"?">>
           query == SubSeq(specifier, Len(start) + 1, Len(specifier) - 1)
           params == parseParams(query)
       IN /\ specifier = start \o <<"f", "=">> \o urlencode(last.arg)
                           \o <<"&", "a", "=">> \o urlencode(appRoot) \o <<"!">>
          /\ matchVirtualLoaderQuery(specifier) = query
          /\ paramsGet(params, <<"f">>) = last.arg
          /\ paramsGet(params, <<"a">>) = appRoot

\* C6, reached: a filename and an app root made of characters to escape
VirtualizedOddNames ==
  /\ last.op = "virtualize" /\ last.arg = OddJs
  /\ Includes(appRoot, <<"&">>)
  /\ Includes(state[last.rec].request, <<"%", "2", "6">>)

\* C7: the fallback resolver, given a request whose record specifier contains
\* '!', reports found without calling the native resolver; when the
\* specifier names the virtual loader with a non-empty f, the tracker maps
\* dirname(f) to f afterwards. An instance whose fromFile is undefined breaks
\* it: dirname throws before the specifier is looked at.
LoaderChainIsFound ==
  (last.op = "resolve" /\ Includes(last.before.request, <<"!">>))
    => /\ last.outcome = "found"
       /\ LET query == matchVirtualLoaderQuery(last.before.request)
              f == paramsGet(parseParams(query), <<"f">>)
          IN (Includes(last.before.request, virtualLoaderName) /\ Truthy(query) /\ Truthy(f))
               => \E i \in 1..Len(virtualModuleContexts) :
                    virtualModuleContexts[i] = <<dirname(f), f>>

\* C8: the tracker mapping d to f, from on a record with a missing or empty
\* issuer, context d and a specifier that is neither a virtual-loader
\* reference, '!'-prefixed nor an implicit-modules one returns a Request whose
\* fromFile is f and leaves f as the record's issuer.
TrackedContextRepairsIssuer ==
  LET st == last.before
      tracked == {i \in 1..Len(last.contextsBefore) : last.contextsBefore[i][1] = st.context}
  IN ( /\ last.op = "from"
       /\ IsString(st.request) /\ IsString(st.context)
       /\ ~st.hasInfo \/ st.issuer = Undefined \/ st.issuer = <<>>
       /\ tracked # {}
       /\ ~Includes(st.request, virtualLoaderName)
       /\ ~StartsWith(st.request, <<"!">>)
       /\ ~Includes(st.request, ImplicitMarker) )
     => \A i \in tracked :
          /\ last.outcome = "request"
          /\ requests[last.ret].fromFile = last.contextsBefore[i][2]
          /\ state[last.rec].hasInfo
          /\ state[last.rec].issuer = last.contextsBefore[i][2]

\* C8, reached: a record without contextInfo, in the second directory the
\* tracker knows, was given the virtual file of that directory
RepairedFromTracker ==
  /\ last.op = "from" /\ last.outcome = "request"
  /\ ~last.before.hasInfo
  /\ Len(last.contextsBefore) = 2
  /\ last.contextsBefore[2][1] = last.before.context
  /\ requests[last.ret].fromFile = last.contextsBefore[2][2]

\* C9: when the native resolver fails with an error that does not carry
\* PackagePathNotExported, the fallback resolver reports not_found with that
\* error, probes no file and leaves the record's specifier as it was.
PlainFailurePassesThrough ==
  (last.op = "native" /\ last.arg # Null /\ ~Includes(last.arg, PackagePathNotExported))
    => /\ last.outcome = "not_found"
       /\ last.err = last.arg
       /\ last.probes = <<>>
       /\ state[last.rec].request = last.before.request

\* C9, reached: the plain failure of a subpath import
PlainFailureOfSubpath ==
  /\ last.op = "native" /\ last.arg = PlainError
  /\ last.requestToResolve = ScopedSubpath
  /\ last.outcome = "not_found"

\* C10: on an export-restricted failure for a subpath import pkg/sub
\* (@scope/name/rest or name/rest) the package directories are considered in
\* the order <context>/node_modules/pkg, <context>/../node_modules/pkg,
\* <context>/../../node_modules/pkg and in each the files src/sub.js,
\* src/sub.ts, src/sub/index.js, src/sub/index.ts, sub.js, sub.ts,
\* sub/index.js, sub/index.ts; the first that exists becomes the record's
\* specifier and the outcome is found; when none exists the outcome is
\* not_found and the specifier stays. An unscoped name breaks it.
SubpathProbeOrder ==
  LET s == last.requestToResolve
      segs == Split(s, "/")
      scoped == Head(s) = "@"
      n == IF scoped THEN 2 ELSE 1
      pkg == IF scoped THEN segs[1] \o <<"/">> \o segs[2] ELSE segs[1]
      sub == Drop(s, Len(pkg) + 2)
      up == <<"/", ".", ".">>
      dirs == [k \in 1..3 |->
                normalize(last.context \o (IF k >= 2 THEN up ELSE <<>>)
                            \o (IF k = 3 THEN up ELSE <<>>)
                            \o <<"/">> \o NodeModules \o <<"/">> \o pkg)]
      files == << <<"/", "s", "r", "c", "/">> \o sub \o <<".", "j", "s">>, <<"/", "s", "r", "c", "/">> \o sub \o <<".", "t", "s">>,
                  <<"/", "s", "r", "c", "/">> \o sub \o <<"/", "i", "n", "d", "e", "x", ".", "j", "s">>, <<"/", "s", "r", "c", "/">> \o sub \o <<"/", "i", "n", "d", "e", "x", ".", "t", "s">>,
                  <<"/">> \o sub \o <<".", "j", "s">>, <<"/">> \o sub \o <<".", "t", "s">>,
                  <<"/">> \o sub \o <<"/", "i", "n", "d", "e", "x", ".", "j", "s">>, <<"/">> \o sub \o <<"/", "i", "n", "d", "e", "x", ".", "t", "s">> >>
      candidate(k) == dirs[((k - 1) \div 8) + 1] \o files[((k - 1) % 8) + 1]
      existing == {k \in 1..24 : candidate(k) \in last.disk.files}
  IN ( /\ last.op = "native" /\ last.arg # Null
       /\ Includes(last.arg, PackagePathNotExported)
       /\ s # <<>> /\ Head(s) \notin {".", "/"}
       /\ \A k \in 1..Len(segs) : segs[k] # <<>>
       /\ Len(segs) > n )
     => IF existing # {}
          THEN /\ last.outcome = "found"
               /\ state[last.rec].request = candidate(Min(existing))
        ELSE /\ last.outcome = "not_found"
             /\ state[last.rec].request = last.before.request

\* C11: on an export-restricted failure for a root package import ('name' or
\* '@scope/name'), the first existing candidate package directory is taken,
\* its manifest read and the entry points probed in the order module, main,
\* src/index.js, src/index.ts, index.js, index.ts, absent fields skipped; the
\* first that exists becomes the record's specifier and the outcome is found.
\* An unscoped name breaks it.
RootProbeOrder ==
  LET s == last.requestToResolve
      segs == Split(s, "/")
      up == <<"/", ".", ".">>
      dirs == [k \in 1..3 |->
                normalize(last.context \o (IF k >= 2 THEN up ELSE <<>>)
                            \o (IF k = 3 THEN up ELSE <<>>)
                            \o <<"/">> \o NodeModules \o <<"/">> \o s)]
      there == {k \in 1..3 : dirs[k] \in last.disk.files}
      dir == dirs[Min(there)]
      read == {i \in 1..Len(last.disk.manifests) :
                 /\ last.disk.manifests[i].path = dir \o <<"/", "p", "a", "c", "k", "a", "g", "e", ".", "j", "s", "o", "n">>
                 /\ last.disk.manifests[i].valid}
      manifest == last.disk.manifests[Min(read)]
      fields == << manifest.module, manifest.main, <<"s", "r", "c", "/", "i", "n", "d", "e", "x", ".", "j", "s">>,
                   <<"s", "r", "c", "/", "i", "n", "d", "e", "x", ".", "t", "s">>, <<"i", "n", "d", "e", "x", ".", "j", "s">>, <<"i", "n", "d", "e", "x", ".", "t", "s">> >>
      entry(k) == normalize(dir \o <<"/">> \o fields[k])
      existing == {k \in 1..6 : fields[k] # Undefined /\ entry(k) \in last.disk.files}
  IN ( /\ last.op = "native" /\ last.arg # Null
       /\ Includes(last.arg, PackagePathNotExported)
       /\ s # <<>> /\ Head(s) \notin {".", "/"}
       /\ \A k \in 1..Len(segs) : segs[k] # <<>>
       /\ Len(segs) = (IF Head(s) = "@" THEN 2 ELSE 1)
       /\ there # {} /\ read # {} /\ existing # {} )
     => /\ last.outcome = "found"
        /\ state[last.rec].request = entry(Min(existing))

\* C12: when the resolver engine's outcome is not_found, the hook completes
\* the host's callback with that outcome's error, a failure, and not with
\* the error-free completion.
NotFoundCompletesWithError ==
  (last.op = "settle" /\ last.outcome = "not_found")
    => /\ callbacks[last.rec] # <<>>
       /\ callbacks[last.rec][Len(callbacks[last.rec])] = "callback(resolution.err)"

\* C13: for every invocation of the hook, the resolver engine's promise
\* settling and the native resolver calling back, the completion callback
\* is eventually invoked, and never more than once: at once when from
\* declines, after the engine's outcome otherwise. An invocation in which
\* from throws never completes.
CallbackInvokedExactlyOnce ==
  /\ [](Len(callbacks[1]) <= 1)
  /\ (pc[1] # "idle") ~> (Len(callbacks[1]) = 1)

\* the directories the tracker has an entry for
trackedKeys(contexts) == { contexts[i][1] : i \in 1..Len(contexts) }

\* C14: the tracker's key set never shrinks, and only two places write to
\* the tracker: from's virtual-loader branch and the fallback resolver's
\* loader-chain branch; alias, rehome, virtualize and withMeta leave it as
\* it is.
TrackerOnlyGrows ==
  [][ /\ trackedKeys(virtualModuleContexts) \subseteq trackedKeys(virtualModuleContexts')
      /\ virtualModuleContexts' # virtualModuleContexts =>
           \/ /\ last'.op = "from"
              /\ Includes(last'.before.request, virtualLoaderName)
           \/ /\ last'.op = "resolve"
              /\ Includes(last'.requestToResolve, <<"!">>)
              /\ Includes(last'.requestToResolve, virtualLoaderName)
      /\ last'.op \in Transformations =>
           virtualModuleContexts' = virtualModuleContexts ]_vars

\* both writers have written and a transformation has run since
TrackerWrittenTwice ==
  /\ Cardinality(trackedKeys(virtualModuleContexts)) = 2
  /\ last.op \in Transformations

\* C15: when two invocations of the hook on distinct records interleave, no
\* step of one changes the other's record, the snapshot fields of the
\* other's instances, or the other's progress and callback; the tracker is
\* the only state they share.
InvocationsIsolated ==
  [][ \A r \in StateIds :
        last'.rec # r =>
          /\ state'[r] = state[r]
          /\ pc'[r] = pc[r]
          /\ callbacks'[r] = callbacks[r]
          /\ \A i \in 1..Len(requests) :
               requests[i].state = r =>
                 Len(requests') >= i /\ requests'[i] = requests[i] ]_vars

\* both invocations are with the engine and one has just transformed its
\* request while the other holds an instance
InterleavedTransformation ==
  /\ \A r \in StateIds : pc[r] = "engine"
  /\ last.op \in Transformations
  /\ state[1] # state[2]
  /\ \E i \in 1..Len(requests) : requests[i].state # last.rec

\* C16: on an export-restricted failure the fallback resolver takes 'name'
\* and '@scope/name' for a root import of that package, and 'name/rest' and
\* '@scope/name/rest' for a subpath import of the package 'name' (resp.
\* '@scope/name') with subpath 'rest'. The two patterns take two segments
\* for the package name of an unscoped specifier as well.
ClassifiesPackageImports ==
  LET s == last.requestToResolve
      segs == Split(s, "/")
      n == IF Head(s) = "@" THEN 2 ELSE 1
      name == IF n = 2 THEN segs[1] \o <<"/">> \o segs[2] ELSE segs[1]
  IN ( /\ last.op = "native" /\ last.arg # Null
       /\ Includes(last.arg, PackagePathNotExported)
       /\ s # <<>> /\ Head(s) \notin {".", "/"} /\ ~Includes(s, <<"!">>)
       /\ Len(segs) >= n
       /\ \A k \in 1..Len(segs) : segs[k] # <<>> )
     => IF Len(segs) = n
          THEN subpathMatch(s) = Undefined /\ rootMatch(s) = name
        ELSE subpathMatch(s) = <<name, SubSeq(s, Len(name) + 2, Len(s))>>

\* from was called on a record of strings whose issuer is missing or empty,
\* and no repair gave it one
unrepaired ==
  /\ last.op = "from"
  /\ IsString(last.before.request) /\ IsString(last.before.context)
  /\ ~Truthy(issuerOf(last.before))
  /\ ~Truthy(issuerOf(state[last.rec]))

\* C17 as stated: if the record's issuer is missing or empty and neither
\* repair yields an issuer, from declines and returns no Request.
MissingIssuerDeclines ==
  unrepaired => last.outcome = "undefined"

\* C17: if the record's issuer is missing or empty and neither repair yields
\* an issuer, from declines unless the specifier is an implicit-modules
\* specifier; an implicit-modules specifier that neither references the
\* virtual loader nor begins with '!' is not declined, and the Request made
\* of a record that has a contextInfo carries the empty issuer.
MissingIssuerDeclinesUnlessImplicit ==
  LET request == last.before.request
      implicit == Includes(request, <<"-", "e", "m", "b", "r", "o", "i", "d", "e", "r", "-", "i", "m", "p", "l", "i", "c", "i", "t", "-">>)
  IN unrepaired =>
       /\ ~implicit => last.outcome = "undefined"
       /\ ( /\ implicit /\ ~Includes(request, virtualLoaderName)
            /\ ~StartsWith(request, <<"!">>) )
          => /\ last.outcome # "undefined"
             /\ last.before.hasInfo =>
                  /\ last.outcome = "request"
                  /\ requests[last.ret].fromFile = last.before.issuer
                  /\ ~Truthy(requests[last.ret].fromFile)

\* an implicit-modules request went on with an empty issuer
ImplicitWithoutIssuer ==
  /\ unrepaired
  /\ last.outcome = "request"
  /\ requests[last.ret].fromFile = <<>>

\* C18: from never constructs a Request for a specifier that references the
\* virtual loader or begins with '!': it declines; in particular it declines
\* every specifier virtualize produces when that specifier re-enters the
\* hook, whatever the record's issuer.
VirtualAndLoaderRequestsDeclined ==
  LET s == last.before.request
      n == Len(virtualLoaderName)
      referencesLoader == \E p \in 1..(Len(s) - n + 1) :
                            SubSeq(s, p, p + n - 1) = virtualLoaderName
      virtualized == \E f \in VirtualFiles :
                       s = virtualSpecifier(babelLoaderPrefix, f, appRoot)
  IN ( /\ last.op = "from" /\ IsString(s)
       /\ referencesLoader \/ virtualized \/ (s # <<>> /\ Head(s) = "!") )
     => /\ last.outcome = "undefined"
        /\ requests = <<>>

\* a specifier virtualize produced came back to the hook with an issuer
\* that would have let from construct
VirtualizedReentered ==
  /\ last.op = "from"
  /\ last.before.request = virtualSpecifier(babelLoaderPrefix, BarJs, appRoot)
  /\ IsString(last.before.context)
  /\ last.before.hasInfo /\ last.before.issuer = FooJs
  /\ last.outcome = "undefined"

BookkeepingSitesAgree ==
  \A f \in VirtualFiles \cup {FooJs} :
    LET v == virtualSpecifier(babelLoaderPrefix, f, appRoot)
    IN ( \/ /\ last.op = "from"
            /\ IsString(last.before.context) /\ last.before.request = v
         \/ /\ last.op = "resolve"
            /\ last.outcome = "found" /\ last.requestToResolve = v )
       => mapGet(virtualModuleContexts, dirname(f)) = f

\* C21: every invocation of the fallback resolver whose native resolver
\* calls back ends in one outcome, found or not_found, never in a rejected
\* promise or a thrown exception; a not_found outcome carries a non-null
\* error; a manifest that fails to parse disqualifies its own candidate
\* directory only. An instance whose fromFile is not a string rejects.
FallbackNeverRejects ==
  LET unparsed == {i \in 1..Len(last.disk.manifests) : ~last.disk.manifests[i].valid}
      parsed == {i \in 1..Len(last.disk.manifests) : last.disk.manifests[i].valid}
  IN /\ last.op = "resolve" => last.outcome \in {"found", "native"}
     /\ last.op = "native" =>
          /\ last.outcome \in {"found", "not_found"}
          /\ last.outcome = "not_found" => last.err # Null
          /\ ( /\ last.requestToResolve = ScopedRoot
               /\ last.arg # Null /\ Includes(last.arg, PackagePathNotExported)
               /\ unparsed # {} /\ parsed # {} )
             => /\ last.outcome = "found"
                /\ state[last.rec].request = MiddleScoped \o <<"/", "i", "n", "d", "e", "x", ".", "j", "s">>

\* C22: the tracker is append-only: once a directory key is recorded with a
\* virtual filename, no later call of from or of the fallback resolver
\* changes the filename stored under that key. A second virtual module of
\* the same directory replaces the first.
TrackerAppendOnly ==
  [][ \A i \in 1..Len(virtualModuleContexts) :
        mapGet(virtualModuleContexts', virtualModuleContexts[i][1])
          = virtualModuleContexts[i][2] ]_vars

\* C23: for every record whose request and context are strings, from
\* returns a Request or undefined and raises no exception, an
\* implicit-modules request without contextInfo and without a repair issuer
\* included. The constructor reads the issuer of the absent contextInfo.
FromNeverRaises ==
  ( /\ last.op = "from"
    /\ IsString(last.before.request) /\ IsString(last.before.context) )
  => last.outcome \in {"request", "undefined"}

\* C24: the fallback resolver never changes the record's issuer, context
\* directory or metadata, and changes the record's specifier only when
\* manual resolution ends in found; it then returns no new instance, so the
\* instance it was given keeps its old specifier snapshot while the record
\* holds the resolved absolute path, a file that exists.
FallbackFrame ==
  [][ last'.op \in {"resolve", "native"} =>
        LET r == last'.rec
            manual == /\ last'.op = "native" /\ last'.outcome = "found"
                      /\ last'.arg # Null
                      /\ Includes(last'.arg, PackagePathNotExported)
        IN /\ requests' = requests
           /\ state'[r].hasInfo = state[r].hasInfo
           /\ state'[r].issuer = state[r].issuer
           /\ state'[r].context = state[r].context
           /\ state'[r].meta = state[r].meta
           /\ \A s \in StateIds \ {r} : state'[s] = state[s]
           /\ state'[r].request # state[r].request => manual
           /\ manual =>
                /\ Head(state'[r].request) = "/"
                /\ state'[r].request \in last'.disk.files
                /\ requests'[last'.this].specifier # state'[r].request ]_vars

\* manual resolution rewrote the record's specifier and the instance the
\* fallback resolver was given still has the specifier it was made with
ManuallyResolved ==
  /\ last.op = "native" /\ last.outcome = "found"
  /\ state[last.rec].request # last.before.request
  /\ state[last.rec].request \in last.disk.files
  /\ requests[last.this].specifier = last.before.request

\* C25: an instance has isVirtual = true if and only if it is the instance
\* a virtualize call returned: the instances from creates, and those alias,
\* withMeta or rehome to another issuer derive from a virtual instance, have
\* isVirtual = false even when their specifier is still the virtual-loader
\* specifier; the flag of an instance never changes afterwards.
VirtualOnlyFromVirtualize ==
  [][ /\ \A i \in 1..Len(requests) :
           Len(requests') >= i /\ requests'[i].isVirtual = requests[i].isVirtual
      /\ Len(requests') > Len(requests) =>
           /\ Len(requests') = Len(requests) + 1
           /\ last'.ret = Len(requests')
           /\ requests'[last'.ret].isVirtual <=> last'.op = "virtualize" ]_vars

\* an instance derived from a virtual one still names the virtual loader
\* and is not virtual
DerivedFromVirtual ==
  /\ last.op \in {"withMeta", "rehome"}
  /\ last.ret # last.this
  /\ requests[last.this].isVirtual
  /\ Includes(requests[last.ret].specifier, virtualLoaderName)
  /\ ~requests[last.ret].isVirtual

====
